---- MODULE Spec2Model ----
(***************************************************************************)
(* Scene configuration validator of AbodePhysicshop (src/simulator):       *)
(* geometry, material, surface, options, scene objects and the            *)
(* GenesisConfig validation pass with its domain auto-fit; and the parts   *)
(* around it that hold state: the window's GenesisRunner and LLMClient     *)
(* (src/frontend/controllers.py) and the backend's assistant cache         *)
(* (src/backend/chat_service.py).                                          *)
(*                                                                         *)
(* Numbers.  Python floats are modelled as fixed-point integers:           *)
(*   lengths and coordinates   in units of 1/Unit                          *)
(*   density rho               in kg/m^3                                   *)
(*   Young's modulus E         in units of 1000 Pa                         *)
(*   Poisson's ratio nu        in units of 0.01                            *)
(*   time step dt              in units of 1e-6 s                          *)
(*   bounds_padding            in percent                                  *)
(* A division or a square root rounds down to the quantum, as a float      *)
(* operation rounds to the nearest representable value.                    *)
(* Python's None is the empty tuple; a Python str is a non-empty sequence  *)
(* of one-character strings.                                               *)
(* A record constructor lists its fields in the order in which their names *)
(* first occur in the module, the order in which TLC keeps a record.       *)
(***************************************************************************)
EXTENDS Integers, Sequences, FiniteSets, TLC

VARIABLES
    geo,      \* SpecGeometry: the last bounding-box computation
    mat,      \* SpecMaterial: the last material construction
    heap,     \* SpecScene: the Surface instances alive, by index
    last,     \* SpecScene: the last construction of a Surface or a scene object
    opt,      \* SpecOptions: the last construction of an options block
    pc,       \* Spec: the validator GenesisConfig.model_validate runs next
    inp,      \* Spec: the payload handed to GenesisConfig.model_validate
    cfg,      \* Spec: the GenesisConfig being built
    err,      \* Spec: the errors raised so far in this pass
    pass,     \* Spec: the number of the validation pass
    prev,     \* Spec: the domain corners the previous pass ended with
    runner,   \* SpecRunner: the GenesisRunner of the window
    client,   \* SpecClient: the LLMClient of the window
    cache     \* SpecCache: _ASSISTANT_CACHE and the requests being served

vars == <<geo, mat, heap, last, opt, pc, inp, cfg, err, pass, prev, runner, client, cache>>

None == <<>>
Unit == 1600

Min(a, b) == IF a <= b THEN a ELSE b
Max(a, b) == IF a >= b THEN a ELSE b
Abs(x) == IF x < 0 THEN -x ELSE x

RECURSIVE SqrtBetween(_, _, _)
SqrtBetween(n, lo, hi) ==
    IF lo >= hi THEN lo
    ELSE LET mid == (lo + hi + 1) \div 2
         IN  IF mid * mid <= n THEN SqrtBetween(n, mid, hi)
                               ELSE SqrtBetween(n, lo, mid - 1)
\* math.sqrt on fixed-point squares: the largest r with r*r <= n
Sqrt(n) == SqrtBetween(n, 0, Min(n, 46340))

(***************************************************************************)
(* simulator/auxiliary.py                                                  *)
(***************************************************************************)
clip_lower_only(x, lo, hi) == Max(lo, x)
clip_upper_only(x, lo, hi) == Min(hi, x)
_clip(x, lo, hi) == Max(lo, Min(hi, x))

(***************************************************************************)
(* simulator/material.py                                                   *)
(***************************************************************************)
ElasticRhoLo == 100
ElasticRhoHi == 10000
ElasticELo == 10
ElasticEHi == 10000000
ElasticNuLo == 0
ElasticNuHi == 49
SnowRhoLo == 50
SnowRhoHi == 800
SandRhoLo == 1200
SandRhoHi == 2200
LiquidRhoLo == 800
LiquidRhoHi == 1300

ElasticMaterial_ranges(m) ==
    [m EXCEPT !.rho = _clip(m.rho, ElasticRhoLo, ElasticRhoHi),
              !.E   = _clip(m.E, ElasticELo, ElasticEHi),
              !.nu  = _clip(m.nu, ElasticNuLo, ElasticNuHi)]
SnowMaterial_ranges(m) == [m EXCEPT !.rho = _clip(m.rho, SnowRhoLo, SnowRhoHi)]
SandMaterial_ranges(m) == [m EXCEPT !.rho = _clip(m.rho, SandRhoLo, SandRhoHi)]
LiquidMaterial_ranges(m) == [m EXCEPT !.rho = _clip(m.rho, LiquidRhoLo, LiquidRhoHi)]

\* Material = Union[...]: the variant is chosen by the payload's type tag and
\* its model validator runs; no variant has a validator that raises.
Material(p) ==
    CASE p.type = "Elastic" -> ElasticMaterial_ranges(p)
      [] p.type = "Snow"    -> SnowMaterial_ranges(p)
      [] p.type = "Sand"    -> SandMaterial_ranges(p)
      [] p.type = "Liquid"  -> LiquidMaterial_ranges(p)

\* the field defaults of the four variants
ElasticDefault == [rho |-> 1000, E |-> 100, nu |-> 30, type |-> "Elastic"]
SnowDefault == [rho |-> 500, type |-> "Snow"]
SandDefault == [rho |-> 1600, type |-> "Sand"]
LiquidDefault == [rho |-> 1000, type |-> "Liquid"]

(***************************************************************************)
(* simulator/geometry.py                                                   *)
(***************************************************************************)
PlaneMorph == [type |-> "Plane"]
BoxMorph(pos, size) == [type |-> "Box", pos |-> pos, size |-> size]
SphereMorph(pos, radius) == [type |-> "Sphere", pos |-> pos, radius |-> radius]

\* the keyword arguments of a constructor call are a record of the names
\* given; a call without arguments gives none
NoKeywords == <<>>

\* BoxMorph(**kw): pos and size are declared without a default, so that a
\* call that leaves either out raises
BoxMorph_init(kw) ==
    IF {"pos", "size"} \subseteq DOMAIN kw
    THEN [ok |-> TRUE, val |-> BoxMorph(kw.pos, kw.size)]
    ELSE [ok |-> FALSE]

box_aabb_signed(m) ==
    LET h == [i \in 1..3 |-> m.size[i] \div 2]
    IN  << [i \in 1..3 |-> m.pos[i] - h[i]], [i \in 1..3 |-> m.pos[i] + h[i]] >>
box_aabb_from_corner(m) ==
    << m.pos, [i \in 1..3 |-> m.pos[i] + Abs(m.size[i])] >>
\* BoxMorph.aabb: 0.5*abs(size) on each side of pos
box_aabb(m) ==
    LET h == [i \in 1..3 |-> Abs(m.size[i]) \div 2]
    IN  << [i \in 1..3 |-> m.pos[i] - h[i]], [i \in 1..3 |-> m.pos[i] + h[i]] >>

\* SphereMorph.aabb: abs(radius) on each side of pos
sphere_aabb(m) ==
    LET r == Abs(m.radius)
    IN  << [i \in 1..3 |-> m.pos[i] - r], [i \in 1..3 |-> m.pos[i] + r] >>

aabb_plane_at_origin(m) ==
    CASE m.type = "Plane"  -> << <<0, 0, 0>>, <<0, 0, 0>> >>
      [] m.type = "Box"    -> box_aabb(m)
      [] m.type = "Sphere" -> sphere_aabb(m)
\* morph.aabb(), dispatched on the variant; PlaneMorph.aabb returns None
aabb(m) ==
    CASE m.type = "Plane"  -> None
      [] m.type = "Box"    -> box_aabb(m)
      [] m.type = "Sphere" -> sphere_aabb(m)

(***************************************************************************)
(* simulator/visual.py                                                     *)
(***************************************************************************)
UpperCase == << "A", "B", "C", "D", "E", "F", "G", "H", "I", "J", "K", "L", "M",
                "N", "O", "P", "Q", "R", "S", "T", "U", "V", "W", "X", "Y", "Z" >>
LowerCase == << "a", "b", "c", "d", "e", "f", "g", "h", "i", "j", "k", "l", "m",
                "n", "o", "p", "q", "r", "s", "t", "u", "v", "w", "x", "y", "z" >>
lower_char(c) ==
    IF \E i \in 1..26 : UpperCase[i] = c
    THEN LowerCase[CHOOSE i \in 1..26 : UpperCase[i] = c]
    ELSE c
\* str.lower()
lower(v) == [i \in 1..Len(v) |-> lower_char(v[i])]

VISUAL == << "v", "i", "s", "u", "a", "l" >>
COLLISION == << "c", "o", "l", "l", "i", "s", "i", "o", "n" >>
PARTICLE == << "p", "a", "r", "t", "i", "c", "l", "e" >>
SDF == << "s", "d", "f" >>
RECON == << "r", "e", "c", "o", "n" >>
_ALLOWED == {VISUAL, COLLISION, PARTICLE, SDF, RECON}

normalize_unknown_kept(v) == IF v = None THEN None ELSE lower(v)
normalize_keep_case(v) == IF v = None THEN None ELSE IF v \in _ALLOWED THEN v ELSE None
normalize_vis_mode(v) ==
    IF v = None THEN None
    ELSE LET vv == lower(v) IN IF vv \in _ALLOWED THEN vv ELSE None

\* Surface(**p): the field validator of vis_mode runs on a supplied value; an
\* omitted vis_mode takes the default None, which is what the validator
\* returns for None.
Surface(p) == [color |-> p.color, vis_mode |-> normalize_vis_mode(p.vis_mode)]

(***************************************************************************)
(* simulator/scene.py                                                      *)
(***************************************************************************)
\* StaticObject._default_and_guard_vis on the object's Surface instance s:
\* the instance as the validator leaves it, and whether it raised
guard_vis_no_default(s) == [ok |-> s.vis_mode # PARTICLE, surface |-> s]
_default_and_guard_vis(s) ==
    LET s1 == IF s.vis_mode = None THEN [s EXCEPT !.vis_mode = VISUAL] ELSE s
    IN  [ok |-> s1.vis_mode # PARTICLE, surface |-> s1]

\* MPMBody._default_vis_for_mpm on the body's material and Surface instance s
default_vis_always_particle(material, s) ==
    IF s.vis_mode = None THEN [s EXCEPT !.vis_mode = PARTICLE] ELSE s
_default_vis_for_mpm(material, s) ==
    IF s.vis_mode = None
    THEN [s EXCEPT !.vis_mode = IF material.type = "Elastic" THEN RECON ELSE PARTICLE]
    ELSE s

(***************************************************************************)
(* Construction of a material (SpecMaterial)                               *)
(***************************************************************************)
RhoInputs == {-1000, 0, 49, 50, 100, 500, 800, 1000, 1200, 1300, 1600, 2200,
              10000, 10001, 2000000000}
EInputs == {-5, 0, 10, 100, 10000000, 10000001}
NuInputs == {-10, 0, 30, 49, 50, 70}
MaterialPayloads ==
    [rho : RhoInputs, E : EInputs, nu : NuInputs, type : {"Elastic"}]
    \cup [rho : RhoInputs, type : {"Snow", "Sand", "Liquid"}]

NoOp == [op |-> "none"]

\* ElasticMaterial(**p), SnowMaterial(**p), ...
ConstructMaterial(p) ==
    /\ mat' = [val |-> Material(p), op |-> "Material", raw |-> p]
    /\ UNCHANGED <<geo, heap, last, opt, pc, inp, cfg, err, pass, prev, runner, client, cache>>

(***************************************************************************)
(* Construction of surfaces and scene objects (SpecScene).  A Surface      *)
(* instance lives in heap; an object built from an instance holds that     *)
(* very instance (pydantic does not copy or revalidate a model instance),  *)
(* an object built from a dict holds a fresh one.                          *)
(***************************************************************************)
MaxSurfaces == 1

Colors == { <<90, 90, 90>>, <<100, 0, 0>> }
VisInputs == { None, VISUAL, COLLISION, SDF, RECON, PARTICLE,
               << "P", "A", "R", "T", "I", "C", "L", "E" >>,
               << "P", "a", "r", "t", "i", "c", "l", "e" >>,
               << "R", "e", "c", "o", "n" >>,
               << "m", "e", "s", "h" >> }
SurfacePayloads == [color : Colors, vis_mode : VisInputs]
SceneMorphs == { PlaneMorph,
                 BoxMorph(<<0, 0, 320>>, <<640, 640, 640>>),
                 SphereMorph(<<0, 0, 160>>, 160) }
BodyMaterials == {ElasticDefault, SnowDefault, SandDefault, LiquidDefault}

\* what a payload may give as an object's surface
SurfaceArgs ==
    { [kind |-> "missing"] }
    \cup [p : SurfacePayloads, kind : {"dict"}]
    \cup [kind : {"instance"}, ref : 1..Len(heap)]

\* the Surface instance the object's validator sees, or None when the
\* required field surface is missing (scene.py: "surface: Surface")
surface_defaulted(arg) ==
    CASE arg.kind = "missing"  -> Surface([color |-> <<90, 90, 90>>, vis_mode |-> None])
      [] arg.kind = "dict"     -> Surface(arg.p)
      [] arg.kind = "instance" -> heap[arg.ref]
SurfaceOf(arg) ==
    CASE arg.kind = "missing"  -> None
      [] arg.kind = "dict"     -> Surface(arg.p)
      [] arg.kind = "instance" -> heap[arg.ref]

\* where the instance lives
SlotOf(arg) == IF arg.kind = "instance" THEN arg.ref ELSE Len(heap) + 1

Store(arg, s) ==
    IF arg.kind = "instance" THEN [heap EXCEPT ![arg.ref] = s] ELSE Append(heap, s)

\* Surface(**p)
ConstructSurface(p) ==
    /\ Len(heap) < MaxSurfaces
    /\ heap' = Append(heap, Surface(p))
    /\ last' = [ok |-> TRUE, surface |-> Len(heap) + 1, op |-> "Surface",
                arg |-> [p |-> p, kind |-> "dict"]]
    /\ UNCHANGED <<geo, mat, opt, pc, inp, cfg, err, pass, prev, runner, client, cache>>

\* StaticObject(name=..., morph=morph, surface=arg); last.given is the render
\* mode of the Surface instance as the validator received it
ConstructStaticObject(morph, arg) ==
    /\ arg.kind # "instance" => Len(heap) < MaxSurfaces
    /\ IF SurfaceOf(arg) = None
       THEN /\ last' = [ok |-> FALSE, op |-> "StaticObject", arg |-> arg,
                        morph |-> morph, error |-> "surface: Field required"]
            /\ heap' = heap
       ELSE LET r == _default_and_guard_vis(SurfaceOf(arg))
            IN  IF r.ok
                THEN /\ heap' = Store(arg, r.surface)
                     /\ last' = [ok |-> TRUE, surface |-> SlotOf(arg),
                                 op |-> "StaticObject", arg |-> arg, morph |-> morph,
                                 given |-> SurfaceOf(arg).vis_mode]
                ELSE /\ heap' = heap
                     /\ last' = [ok |-> FALSE, op |-> "StaticObject", arg |-> arg,
                                 morph |-> morph,
                                 error |-> "Static/rigid objects cannot use vis_mode='particle'",
                                 given |-> SurfaceOf(arg).vis_mode]
    /\ UNCHANGED <<geo, mat, opt, pc, inp, cfg, err, pass, prev, runner, client, cache>>

\* MPMBody(name=..., material=m, morph=morph, surface=arg)
ConstructMPMBody(m, morph, arg) ==
    /\ arg.kind # "instance" => Len(heap) < MaxSurfaces
    /\ IF SurfaceOf(arg) = None
       THEN /\ last' = [ok |-> FALSE, material |-> Material(m), op |-> "MPMBody",
                        arg |-> arg, morph |-> morph, error |-> "surface: Field required"]
            /\ heap' = heap
       ELSE /\ heap' = Store(arg, _default_vis_for_mpm(Material(m), SurfaceOf(arg)))
            /\ last' = [ok |-> TRUE, surface |-> SlotOf(arg), material |-> Material(m),
                        op |-> "MPMBody", arg |-> arg, morph |-> morph,
                        given |-> SurfaceOf(arg).vis_mode]
    /\ UNCHANGED <<geo, mat, opt, pc, inp, cfg, err, pass, prev, runner, client, cache>>

(***************************************************************************)
(* simulator/options.py                                                    *)
(***************************************************************************)
DtLo == 10
DtHi == 5000
DtMax == 100000
SubstepsLo == 1
SubstepsHi == 50
SubstepsMax == 10000
GravityMax == 5000
GridLo == 16
GridHi == 512
GridMin == 8

\* the field validators: TRUE when the value passes, FALSE when they raise
check_nothing(v) == TRUE
check_dt(v) == ~(v <= 0 \/ v > DtMax)
check_substeps(v) == ~(v < 1 \/ v > SubstepsMax)
check_res(v) == ~(v < GridMin)

ranges_clip_components(o) ==
    [gravity |-> [i \in 1..3 |-> _clip(o.gravity[i], -GravityMax, GravityMax)],
     dt |-> _clip(o.dt, DtLo, DtHi),
     substeps |-> _clip(o.substeps, SubstepsLo, SubstepsHi)]
\* SimOptions._ranges; gravity in units of 0.01 m/s^2
SimOptions_ranges(o) ==
    LET g == o.gravity
        mag == Sqrt(g[1] * g[1] + g[2] * g[2] + g[3] * g[3])
    IN  [gravity |-> IF mag > GravityMax
                     THEN [i \in 1..3 |-> (g[i] * GravityMax) \div mag]
                     ELSE g,
         dt |-> _clip(o.dt, DtLo, DtHi),
         substeps |-> _clip(o.substeps, SubstepsLo, SubstepsHi)]

\* SimOptions(**p): the field validators run first, in field order, and every
\* failure is collected; the model validator runs only when none failed
SimOptions(p) ==
    LET errors == (IF check_dt(p.dt) THEN <<>> ELSE << "dt" >>)
                  \o (IF check_substeps(p.substeps) THEN <<>> ELSE << "substeps" >>)
    IN  IF errors = <<>> THEN [ok |-> TRUE, val |-> SimOptions_ranges(p)]
                         ELSE [ok |-> FALSE, errors |-> errors]

\* MPMOptions._ranges: the grid density is clamped, then each axis whose
\* lower corner is greater than its upper corner is swapped
ranges_no_swap(o) ==
    [o EXCEPT !.grid_density = _clip(o.grid_density, GridLo, GridHi)]
MPMOptions_ranges(o) ==
    [grid_density |-> _clip(o.grid_density, GridLo, GridHi),
     lower_bound |-> [i \in 1..3 |-> IF o.lower_bound[i] > o.upper_bound[i]
                                     THEN o.upper_bound[i] ELSE o.lower_bound[i]],
     upper_bound |-> [i \in 1..3 |-> IF o.lower_bound[i] > o.upper_bound[i]
                                     THEN o.lower_bound[i] ELSE o.upper_bound[i]]]

\* MPMOptions(**p)
MPMOptions(p) ==
    IF check_res(p.grid_density) THEN [ok |-> TRUE, val |-> MPMOptions_ranges(p)]
                                 ELSE [ok |-> FALSE, errors |-> << "grid_density" >>]

SimOptionsDefault == [gravity |-> <<0, 0, -981>>, dt |-> 1000, substeps |-> 10]
MPMOptionsDefault ==
    [grid_density |-> 16, lower_bound |-> <<-Unit, -Unit, 0>>,
     upper_bound |-> <<Unit, Unit, (3 * Unit) \div 2>>]

(***************************************************************************)
(* Construction of an options block (SpecOptions)                          *)
(***************************************************************************)
DtInputs == {-1000, 0, 1, 10, 1000, 5000, 5001, 100000, 100001, 2000000000}
SubstepsInputs == {-3, 0, 1, 10, 50, 51, 10000, 10001}
GravityInputs == { <<0, 0, -981>>, <<0, 0, -6000>>, <<3000, -4000, 0>>,
                   <<6000, 0, -8000>>, <<0, 0, 0>>, <<3000, 3000, -3000>> }
GridInputs == {-16, 0, 7, 8, 15, 16, 64, 512, 513, 100000}
CornerInputs == { << <<-Unit, -Unit, 0>>, <<Unit, Unit, (3 * Unit) \div 2>> >>,
                  << <<Unit, -Unit, 0>>, <<-Unit, Unit, (3 * Unit) \div 2>> >>,
                  << <<Unit, Unit, Unit>>, <<-Unit, -Unit, 0>> >>,
                  << <<-Unit, -Unit, 0>>, <<Unit, Unit, 0>> >> }

ConstructSimOptions(p) ==
    /\ opt' = [op |-> "SimOptions", raw |-> p, res |-> SimOptions(p)]
    /\ UNCHANGED <<geo, mat, heap, last, pc, inp, cfg, err, pass, prev, runner, client, cache>>

ConstructMPMOptions(p) ==
    /\ opt' = [op |-> "MPMOptions", raw |-> p, res |-> MPMOptions(p)]
    /\ UNCHANGED <<geo, mat, heap, last, pc, inp, cfg, err, pass, prev, runner, client, cache>>

(***************************************************************************)
(* simulator/config.py                                                     *)
(***************************************************************************)
_min3(a, b) == [i \in 1..3 |-> Min(a[i], b[i])]
_max3(a, b) == [i \in 1..3 |-> Max(a[i], b[i])]

union_none_absorbs(a, b) ==
    IF a = None \/ b = None THEN None
    ELSE << _min3(a[1], b[1]), _max3(a[2], b[2]) >>
_aabb_union(a, b) ==
    IF a = None THEN b
    ELSE IF b = None THEN a
    ELSE << _min3(a[1], b[1]), _max3(a[2], b[2]) >>

\* step 2 of _check_or_fit_domain: the loop over self.mpm_bodies, from the
\* union acc built so far
RECURSIVE bodies_aabb_from(_, _)
bodies_aabb_from(acc, bodies) ==
    IF bodies = <<>> THEN acc
    ELSE LET box == aabb(Head(bodies).morph)
         IN  bodies_aabb_from(IF box = None THEN acc ELSE _aabb_union(acc, box),
                              Tail(bodies))
bodies_aabb(bodies) == bodies_aabb_from(None, bodies)

safety_one_cell(lb, ub, grid_density) ==
    Max(Max(ub[1] - lb[1], ub[2] - lb[2]), ub[3] - lb[3]) \div Max(1, grid_density)
\* step 3: safety = 2.0 * (largest_extent / float(max(1, int(grid_density))))
safety_of(lb, ub, grid_density) ==
    (2 * Max(Max(ub[1] - lb[1], ub[2] - lb[2]), ub[3] - lb[3])) \div Max(1, grid_density)

\* step 4: the containment test against the effective box
inside_upper_only(bl, bu, eff_lb, eff_ub) ==
    \A i \in 1..3 : bu[i] <= eff_ub[i]
inside_strictly(bl, bu, eff_lb, eff_ub) ==
    /\ \A i \in 1..3 : bl[i] > eff_lb[i]
    /\ \A i \in 1..3 : bu[i] < eff_ub[i]
inside_effective(bl, bu, eff_lb, eff_ub) ==
    /\ \A i \in 1..3 : bl[i] >= eff_lb[i]
    /\ \A i \in 1..3 : bu[i] <= eff_ub[i]

pad_user_only(bounds_padding, bl, bu, safety) ==
    LET diag == Sqrt((bu[1] - bl[1]) * (bu[1] - bl[1])
                     + (bu[2] - bl[2]) * (bu[2] - bl[2])
                     + (bu[3] - bl[3]) * (bu[3] - bl[3]))
    IN  (bounds_padding * diag) \div 100
\* step 5: pad = max(float(bounds_padding) * math.dist(bl, bu), safety)
pad_of(bounds_padding, bl, bu, safety) ==
    LET diag == Sqrt((bu[1] - bl[1]) * (bu[1] - bl[1])
                     + (bu[2] - bl[2]) * (bu[2] - bl[2])
                     + (bu[3] - bl[3]) * (bu[3] - bl[3]))
    IN  Max((bounds_padding * diag) \div 100, safety)

steps_nonnegative(v) == ~(v < 0)
\* GenesisConfig._steps_positive: TRUE when the value passes
_steps_positive(v) == ~(v < 1)

require_bodies_never(c) == TRUE
\* GenesisConfig._require_bodies: TRUE when it returns, FALSE when it raises
_require_bodies(c) == ~(c.min_bodies > 0 /\ Len(c.mpm_bodies) < c.min_bodies)

check_or_fit_tight(c) ==
    LET lb == c.mpm_options.lower_bound
        ub == c.mpm_options.upper_bound
        box == bodies_aabb(c.mpm_bodies)
        safety == safety_of(lb, ub, c.mpm_options.grid_density)
        eff_lb == [i \in 1..3 |-> lb[i] + safety]
        eff_ub == [i \in 1..3 |-> ub[i] - safety]
        accept == [ok |-> TRUE, error |-> None, mpm_options |-> c.mpm_options]
    IN  IF ~(\A i \in 1..3 : lb[i] < ub[i])
        THEN [ok |-> FALSE, error |-> [kind |-> "corner order", lb |-> lb,
                         ub |-> ub, validator |-> "_check_or_fit_domain"],
              mpm_options |-> c.mpm_options]
        ELSE IF box = None THEN accept
        ELSE IF inside_effective(box[1], box[2], eff_lb, eff_ub) THEN accept
        ELSE IF c.auto_fit_bounds
        THEN LET pad == pad_of(c.bounds_padding, box[1], box[2], safety)
             IN  [ok |-> TRUE,
                  error |-> None,
                  mpm_options |->
                      [c.mpm_options EXCEPT
                          !.lower_bound = [i \in 1..3 |-> box[1][i] - pad],
                          !.upper_bound = [i \in 1..3 |-> box[2][i] + pad]]]
        ELSE IF c.require_bodies_inside
        THEN [ok |-> FALSE, error |-> [raw |-> <<lb, ub>>, kind |-> "bodies outside",
                         bodies |-> box, validator |-> "_check_or_fit_domain",
                         effective |-> <<eff_lb, eff_ub>>],
              mpm_options |-> c.mpm_options]
        ELSE accept

\* GenesisConfig._check_or_fit_domain on the configuration c: whether it
\* returned, the mpm_options it leaves behind, and the error it raised
_check_or_fit_domain(c) ==
    LET lb == c.mpm_options.lower_bound
        ub == c.mpm_options.upper_bound
        box == bodies_aabb(c.mpm_bodies)
        safety == safety_of(lb, ub, c.mpm_options.grid_density)
        eff_lb == [i \in 1..3 |-> lb[i] + safety]
        eff_ub == [i \in 1..3 |-> ub[i] - safety]
        accept == [ok |-> TRUE, error |-> None, mpm_options |-> c.mpm_options]
    IN  IF ~(\A i \in 1..3 : lb[i] < ub[i])
        THEN [ok |-> FALSE, error |-> [kind |-> "corner order", lb |-> lb,
                         ub |-> ub, validator |-> "_check_or_fit_domain"],
              mpm_options |-> c.mpm_options]
        ELSE IF box = None THEN accept
        ELSE IF inside_effective(box[1], box[2], eff_lb, eff_ub) THEN accept
        ELSE IF c.auto_fit_bounds
        THEN LET pad == pad_of(c.bounds_padding, box[1], box[2], safety)
             IN  [ok |-> TRUE,
                  error |-> None,
                  mpm_options |->
                      [c.mpm_options EXCEPT
                          !.lower_bound = [i \in 1..3 |-> Min(lb[i], box[1][i] - pad)],
                          !.upper_bound = [i \in 1..3 |-> Max(ub[i], box[2][i] + pad)]]]
        ELSE IF c.require_bodies_inside
        THEN [ok |-> FALSE, error |-> [raw |-> <<lb, ub>>, kind |-> "bodies outside",
                         bodies |-> box, validator |-> "_check_or_fit_domain",
                         effective |-> <<eff_lb, eff_ub>>],
              mpm_options |-> c.mpm_options]
        ELSE accept

\* StaticObject(**p) and MPMBody(**p) for a payload whose surface is a dict or
\* is missing: the object, or the failure
StaticObject(p) ==
    IF SurfaceOf(p.surface) = None THEN [ok |-> FALSE]
    ELSE LET r == _default_and_guard_vis(SurfaceOf(p.surface))
         IN  IF r.ok THEN [ok |-> TRUE, val |-> [surface |-> r.surface, morph |-> p.morph]]
                     ELSE [ok |-> FALSE]
MPMBody(p) ==
    IF SurfaceOf(p.surface) = None THEN [ok |-> FALSE]
    ELSE [ok |-> TRUE,
          val |-> [surface |-> _default_vis_for_mpm(Material(p.material),
                                                    SurfaceOf(p.surface)),
                   material |-> Material(p.material),
                   morph |-> p.morph]]

(***************************************************************************)
(* Bounding boxes on their own (SpecGeometry): morph.aabb(), _aabb_union   *)
(* and the union loop of _check_or_fit_domain, on shapes with negative,    *)
(* zero and positive sizes.                                                *)
(***************************************************************************)
MaxMorphs == 3

GeoPositions == { <<0, 0, 0>>, <<Unit, -Unit, Unit \div 2>> }
GeoLengths == { -Unit, 0, 2 * Unit }
GeoMorphs ==
    {PlaneMorph}
    \cup { BoxMorph(p, <<x, y, z>>) : p \in GeoPositions,
                                      x \in GeoLengths, y \in GeoLengths, z \in GeoLengths }
    \cup { SphereMorph(p, r) : p \in GeoPositions, r \in GeoLengths }
\* the morphs of the lists and of the pairs
ListMorphs ==
    { PlaneMorph,
      BoxMorph(<<0, 0, 0>>, <<2 * Unit, 0, -Unit>>),
      BoxMorph(<<Unit, -Unit, Unit \div 2>>, <<-Unit, -Unit, 2 * Unit>>),
      SphereMorph(<<Unit, -Unit, Unit \div 2>>, -Unit) }
MorphLists == UNION { [1..n -> ListMorphs] : n \in 0..MaxMorphs }

\* morph.aabb()
ComputeAabb(m) ==
    /\ geo' = [op |-> "aabb", morph |-> m, box |-> aabb(m)]
    /\ UNCHANGED <<mat, heap, last, opt, pc, inp, cfg, err, pass, prev, runner, client, cache>>

\* _aabb_union(a, b)
UnionPair(a, b) ==
    /\ geo' = [a |-> a, b |-> b, op |-> "_aabb_union", box |-> _aabb_union(a, b)]
    /\ UNCHANGED <<mat, heap, last, opt, pc, inp, cfg, err, pass, prev, runner, client, cache>>

\* the loop over self.mpm_bodies for bodies with the morphs ms
UnionBodies(ms) ==
    /\ geo' = [op |-> "bodies_aabb",
               box |-> bodies_aabb([i \in 1..Len(ms) |-> [morph |-> ms[i]]]),
               morphs |-> ms]
    /\ UNCHANGED <<mat, heap, last, opt, pc, inp, cfg, err, pass, prev, runner, client, cache>>

(***************************************************************************)
(* frontend/controllers.py: GenesisRunner (SpecRunner).  The runner lives  *)
(* in the GUI thread: the window's buttons call update_config, start, stop *)
(* and end, and the QTimer calls _tick while it is active.  A call into    *)
(* Genesis (gs.Scene, add_entity, build, step) may raise.                  *)
(***************************************************************************)
MaxTicks == 2

\* GenesisRunner.__init__
GenesisRunner_init ==
    [op |-> "__init__", scene |-> "none", built |-> FALSE, stepped |-> 0,
     has_cfg |-> FALSE, running |-> FALSE, timer |-> FALSE,
     emitted |-> <<>>, raised |-> FALSE]

\* GenesisRunner.is_running
is_running(r) == r.running

\* what gs.Scene(...) and the add_entity loop of update_config may do
UpdateOutcomes == {"ok", "Scene raises", "add_entity raises"}

\* GenesisRunner.update_config(cfg): the old scene is reset and dropped, then
\* the new one is made inside the try block; _running and the timer are not
\* touched
update_config(r, outcome) ==
    [r EXCEPT !.op = "update_config",
              !.has_cfg = TRUE,
              !.scene = CASE outcome = "Scene raises" -> "none"
                          [] outcome = "add_entity raises" -> "partial"
                          [] outcome = "ok" -> "loaded",
              !.built = FALSE,
              !.stepped = 0,
              !.emitted = IF outcome = "ok" THEN <<>> ELSE << "errored" >>,
              !.raised = FALSE]

\* GenesisRunner.start(): _running is set before the scene is touched;
\* self._scene.is_built raises AttributeError when there is no scene, and
\* build() may raise
start(r, build_ok) ==
    IF r.running
    THEN [r EXCEPT !.op = "start", !.emitted = <<>>, !.raised = FALSE]
    ELSE IF r.scene = "none" \/ (~r.built /\ ~build_ok)
    THEN [r EXCEPT !.op = "start", !.running = TRUE, !.emitted = <<>>, !.raised = TRUE]
    ELSE [r EXCEPT !.op = "start", !.running = TRUE, !.built = TRUE, !.timer = TRUE,
                   !.emitted = << "started" >>, !.raised = FALSE]

\* GenesisRunner.stop()
stop(r) ==
    IF ~r.running
    THEN [r EXCEPT !.op = "stop", !.emitted = <<>>, !.raised = FALSE]
    ELSE [r EXCEPT !.op = "stop", !.running = FALSE, !.timer = FALSE,
                   !.emitted = << "stopped(0)" >>, !.raised = FALSE]

\* GenesisRunner.end(): like stop, and the scene, if any, is reset
end(r) ==
    IF ~r.running
    THEN [r EXCEPT !.op = "end", !.emitted = <<>>, !.raised = FALSE]
    ELSE [r EXCEPT !.op = "end", !.running = FALSE, !.timer = FALSE,
                   !.stepped = 0, !.emitted = << "ended(0)" >>, !.raised = FALSE]

\* GenesisRunner._tick(): self._scene.step() raises when there is no scene,
\* and may raise otherwise; the handler catches it
_tick(r, step_ok) ==
    IF ~r.running
    THEN [r EXCEPT !.op = "_tick", !.emitted = <<>>, !.raised = FALSE]
    ELSE IF r.scene = "none" \/ ~step_ok
    THEN [r EXCEPT !.op = "_tick", !.running = FALSE, !.timer = FALSE,
                   !.emitted = << "errored", "ended(-1)" >>, !.raised = FALSE]
    ELSE [r EXCEPT !.op = "_tick", !.stepped = r.stepped + 1,
                   !.emitted = <<>>, !.raised = FALSE]

(***************************************************************************)
(* frontend/controllers.py: LLMClient (SpecClient).  send appends the      *)
(* user's message, calls the backend or the API, and appends the reply.    *)
(***************************************************************************)
MaxHistory == 5

UserTexts == {"add a ball", "make it heavier"}
\* what the call may do: the request raises, the status is not 2xx, the
\* body is no JSON, the JSON is no AssistantResponse, or a reply arrives
SendOutcomes == {"request raises", "bad status", "not JSON", "not a response", "reply"}

UserMessage(text) == [role |-> "user", content |-> text]
AssistantReply(text) == [role |-> "assistant", content |-> << "reply to", text >>]

\* LLMClient.__init__
LLMClient_init(use_API) ==
    [op |-> "__init__", raised |-> FALSE, use_API |-> use_API, history |-> <<>>,
     before |-> <<>>]

\* list.pop()
pop(h) == SubSeq(h, 1, Len(h) - 1)

\* LLMClient._send_backend and LLMClient._send_API on the history h: only the
\* request itself (and, for the API, reading the reply's content) is inside
\* the try block whose handler pops the user's message; parsing the reply
\* comes after it
_send_backend(h, user_text, outcome) ==
    LET h1 == Append(h, UserMessage(user_text))
    IN  IF outcome \in {"request raises", "bad status"}
        THEN [raised |-> TRUE, history |-> pop(h1)]
        ELSE IF outcome \in {"not JSON", "not a response"}
        THEN [raised |-> TRUE, history |-> h1]
        ELSE [raised |-> FALSE, history |-> Append(h1, AssistantReply(user_text))]
_send_API(h, user_text, outcome) ==
    LET h1 == Append(h, UserMessage(user_text))
    IN  IF outcome \in {"request raises", "bad status"}
        THEN [raised |-> TRUE, history |-> pop(h1)]
        ELSE IF outcome \in {"not JSON", "not a response"}
        THEN [raised |-> TRUE, history |-> h1]
        ELSE [raised |-> FALSE, history |-> Append(h1, AssistantReply(user_text))]

\* LLMClient.send
send(c, user_text, outcome) ==
    LET r == IF c.use_API THEN _send_API(c.history, user_text, outcome)
             ELSE _send_backend(c.history, user_text, outcome)
    IN  [op |-> "send", raised |-> r.raised, use_API |-> c.use_API,
         history |-> r.history, before |-> c.history]

(***************************************************************************)
(* backend/chat_service.py and backend/app.py (SpecCache).  /generate and  *)
(* /set_model are plain functions, which the server runs on worker         *)
(* threads: calls of get_or_create_assistant interleave between the        *)
(* membership test, the construction of the LLMAssistant (which loads a    *)
(* model), the store into the cache and the final lookup.                  *)
(***************************************************************************)
MaxRequests == 3

Requests == 1..MaxRequests
Keys == { << "qwen", "cpu" >>, << "qwen", "cuda" >> }
Endpoints == {"generate", "set_model"}
NoKey == << "", "" >>

\* _ASSISTANT_CACHE = {} and no request under way; an instance is a positive
\* number, 0 stands for no instance
EmptyCache ==
    [store |-> [k \in Keys |-> 0],
     made |-> [k \in Keys |-> 0],
     next_id |-> 1,
     req |-> [t \in Requests |-> [at |-> "idle", endpoint |-> "none", key |-> NoKey,
                                  inst |-> 0, ret |-> 0]]]

\* the frontend and the backend before anything was asked of them
FrontendIdle ==
    /\ runner = GenesisRunner_init
    /\ client = LLMClient_init(FALSE)
    /\ cache = EmptyCache

Elsewhere == <<geo, mat, heap, last, opt, pc, inp, cfg, err, pass, prev>>

RunnerUpdateConfig(outcome) ==
    /\ runner' = update_config(runner, outcome)
    /\ UNCHANGED <<Elsewhere, client, cache>>
RunnerStart(build_ok) ==
    /\ runner' = start(runner, build_ok)
    /\ UNCHANGED <<Elsewhere, client, cache>>
RunnerStop ==
    /\ runner' = stop(runner)
    /\ UNCHANGED <<Elsewhere, client, cache>>
RunnerEnd ==
    /\ runner' = end(runner)
    /\ UNCHANGED <<Elsewhere, client, cache>>
\* the timer's timeout signal: only an active timer fires
RunnerTick(step_ok) ==
    /\ runner.timer
    /\ runner.stepped < MaxTicks
    /\ runner' = _tick(runner, step_ok)
    /\ UNCHANGED <<Elsewhere, client, cache>>

ClientSend(user_text, outcome) ==
    /\ Len(client.history) + 2 <= MaxHistory
    /\ client' = send(client, user_text, outcome)
    /\ UNCHANGED <<Elsewhere, runner, cache>>

\* a request arrives: generate -> generate_structured_response ->
\* get_or_create_assistant, or set_model -> get_or_create_assistant
Receive(t, endpoint, key) ==
    /\ cache.req[t].at = "idle"
    /\ cache' = [cache EXCEPT !.req[t] = [@ EXCEPT !.at = "test", !.endpoint = endpoint,
                                                   !.key = key]]
    /\ UNCHANGED <<Elsewhere, runner, client>>
\* if key not in _ASSISTANT_CACHE
TestKey(t) ==
    /\ cache.req[t].at = "test"
    /\ cache' = [cache EXCEPT !.req[t].at =
                     IF cache.store[cache.req[t].key] = 0 THEN "construct" ELSE "return"]
    /\ UNCHANGED <<Elsewhere, runner, client>>
\* LLMAssistant(model, device)
Construct(t) ==
    /\ cache.req[t].at = "construct"
    /\ cache' = [cache EXCEPT !.req[t] = [@ EXCEPT !.at = "store", !.inst = cache.next_id],
                              !.made[cache.req[t].key] = @ + 1,
                              !.next_id = @ + 1]
    /\ UNCHANGED <<Elsewhere, runner, client>>
\* _ASSISTANT_CACHE[key] = ...
StoreInstance(t) ==
    /\ cache.req[t].at = "store"
    /\ cache' = [cache EXCEPT !.req[t].at = "return",
                              !.store[cache.req[t].key] = cache.req[t].inst]
    /\ UNCHANGED <<Elsewhere, runner, client>>
\* return _ASSISTANT_CACHE[key]
ReturnInstance(t) ==
    /\ cache.req[t].at = "return"
    /\ cache' = [cache EXCEPT !.req[t] = [@ EXCEPT !.at = "done",
                                                   !.ret = cache.store[cache.req[t].key]]]
    /\ UNCHANGED <<Elsewhere, runner, client>>

(***************************************************************************)
(* GenesisConfig.model_validate(payload) (Spec).  pydantic validates the   *)
(* fields in declaration order and collects every field error; the model   *)
(* validators run, in definition order, only when no field failed, and the *)
(* first one that raises ends the pass.  A valid configuration is dumped   *)
(* to the editor and may be re-submitted, which starts a fresh pass.       *)
(***************************************************************************)
MaxBodies == 2
MaxPasses == 2

DomainInputs ==
    { [lower_bound |-> <<-Unit, -Unit, 0>>, upper_bound |-> <<Unit, Unit, (3 * Unit) \div 2>>],
      [lower_bound |-> <<Unit, -Unit, 0>>, upper_bound |-> <<-Unit, Unit, (3 * Unit) \div 2>>],
      [lower_bound |-> <<-Unit, -Unit, 0>>, upper_bound |-> <<Unit, Unit, 0>>],
      [lower_bound |-> <<0, 0, 0>>, upper_bound |-> <<0, 0, 0>>] }
DensityInputs == {4, 16, 64}
PaddingInputs == {0, 15}

EmptySurface == [p |-> [color |-> <<90, 90, 90>>, vis_mode |-> None], kind |-> "dict"]
MorphInputs ==
    { PlaneMorph,
      \* inside the effective default domain
      BoxMorph(<<0, 0, (3 * Unit) \div 4>>,
               <<(2 * Unit) \div 5, (2 * Unit) \div 5, (2 * Unit) \div 5>>),
      \* touching the effective default domain at grid density 16
      BoxMorph(<<0, 0, (3 * Unit) \div 4>>, <<(3 * Unit) \div 2, (3 * Unit) \div 2, Unit>>),
      \* centred at the origin, extents 0.4
      BoxMorph(<<0, 0, 0>>, <<(2 * Unit) \div 5, (2 * Unit) \div 5, (2 * Unit) \div 5>>),
      \* a point at the origin
      BoxMorph(<<0, 0, 0>>, <<0, 0, 0>>),
      \* centre (0.95, 0, 0.1), radius 0.1
      SphereMorph(<<(19 * Unit) \div 20, 0, Unit \div 10>>, Unit \div 10) }
BodyInputs == [surface : {EmptySurface}, material : {ElasticDefault}, morph : MorphInputs]
BodyLists == UNION { [1..n -> BodyInputs] : n \in 0..MaxBodies }

ParticleStatic ==
    [surface |-> [p |-> [color |-> <<90, 90, 90>>, vis_mode |-> PARTICLE], kind |-> "dict"],
     morph |-> PlaneMorph]
\* max_bodies: int = 8
max_bodies_default == 8
RestInputs ==
    { [min_bodies |-> 1, max_bodies |-> max_bodies_default, steps |-> 600, sim_options |-> SimOptionsDefault, static |-> <<>>],
      [min_bodies |-> 1, max_bodies |-> max_bodies_default, steps |-> 0, sim_options |-> SimOptionsDefault, static |-> <<>>],
      [min_bodies |-> 1, max_bodies |-> max_bodies_default, steps |-> -3, sim_options |-> SimOptionsDefault, static |-> <<>>],
      [min_bodies |-> 1, max_bodies |-> max_bodies_default, steps |-> 600, sim_options |-> [SimOptionsDefault EXCEPT !.dt = 0],
       static |-> <<>>],
      [min_bodies |-> 1, max_bodies |-> max_bodies_default, steps |-> 600, sim_options |-> SimOptionsDefault,
       static |-> <<ParticleStatic>>],
      [min_bodies |-> 0, max_bodies |-> max_bodies_default, steps |-> 600, sim_options |-> SimOptionsDefault, static |-> <<>>],
      [min_bodies |-> 2, max_bodies |-> max_bodies_default, steps |-> 600, sim_options |-> SimOptionsDefault, static |-> <<>>],
      [min_bodies |-> 1, max_bodies |-> 1, steps |-> 600, sim_options |-> SimOptionsDefault,
       static |-> <<>>] }

\* payloads that give every field; omitted is the set of the fields with a
\* validator or a default factory that the JSON object leaves out
FullPayloads ==
    { [bounds_padding |-> p, min_bodies |-> r.min_bodies, mpm_bodies |-> b,
       mpm_options |-> [grid_density |-> g, lower_bound |-> d.lower_bound,
                        upper_bound |-> d.upper_bound],
       auto_fit_bounds |-> a,
       require_bodies_inside |-> q, max_bodies |-> r.max_bodies,
       steps |-> r.steps, sim_options |-> r.sim_options, static |-> r.static,
       omitted |-> {}] :
      r \in RestInputs, d \in DomainInputs, g \in DensityInputs, b \in BodyLists,
      a \in BOOLEAN, p \in PaddingInputs, q \in BOOLEAN }

\* the payload p without the fields o; a left-out steps keeps a number that
\* is never read
Omit(p, o) ==
    [p EXCEPT !.omitted = o,
              !.sim_options = IF "sim_options" \in o THEN None ELSE @,
              !.mpm_options = IF "mpm_options" \in o THEN None ELSE @,
              !.static = IF "static" \in o THEN None ELSE @,
              !.mpm_bodies = IF "mpm_bodies" \in o THEN None ELSE @]
OmittedInputs ==
    { {"mpm_bodies"},
      {"steps", "sim_options", "mpm_options", "static"},
      {"steps", "sim_options", "mpm_options", "static", "mpm_bodies"} }
SparsePayloads ==
    { Omit(p, o) : p \in { x \in FullPayloads :
                               /\ x.steps = 600 /\ x.sim_options = SimOptionsDefault
                               /\ x.static = <<>> /\ x.min_bodies = 1
                               /\ x.max_bodies = max_bodies_default
                               /\ x.mpm_options = MPMOptionsDefault
                               /\ x.bounds_padding = 15 /\ x.require_bodies_inside },
                 o \in OmittedInputs }
Payloads == FullPayloads \cup SparsePayloads

\* the defaults of the fields of GenesisConfig; a default is not validated,
\* and a default factory is called when the field is left out
steps_default == 600
sim_options_default == [ok |-> TRUE, val |-> SimOptions_ranges(SimOptionsDefault)]
mpm_options_default == [ok |-> TRUE, val |-> MPMOptions_ranges(MPMOptionsDefault)]
static_default == <<>>
\* lambda: [MPMBody(name="default", material=ElasticMaterial(),
\*                  morph=BoxMorph(), surface=Surface())]
mpm_bodies_default ==
    LET morph == BoxMorph_init(NoKeywords)
    IN  IF ~morph.ok THEN << [ok |-> FALSE] >>
        ELSE << MPMBody([surface |-> EmptySurface, material |-> ElasticDefault,
                         morph |-> morph.val]) >>

\* the configuration before any field is validated: the fields without a
\* validator hold the payload's value; an assigned steps is the one-element
\* sequence <<n>>, so that it stays comparable with the unassigned one
Unvalidated(p) ==
    [bounds_padding |-> p.bounds_padding, min_bodies |-> p.min_bodies,
     mpm_bodies |-> None, mpm_options |-> None, auto_fit_bounds |-> p.auto_fit_bounds,
     require_bodies_inside |-> p.require_bodies_inside,
     max_bodies |-> p.max_bodies,
     steps |-> None, sim_options |-> None, static |-> None]

FieldError(loc) == [kind |-> loc, validator |-> "field"]

\* field steps, with _steps_positive
ValidateSteps ==
    /\ pc = "steps"
    /\ pc' = "sim_options"
    /\ IF "steps" \in inp.omitted
       THEN cfg' = [cfg EXCEPT !.steps = <<steps_default>>] /\ err' = err
       ELSE IF _steps_positive(inp.steps)
       THEN cfg' = [cfg EXCEPT !.steps = <<inp.steps>>] /\ err' = err
       ELSE cfg' = cfg /\ err' = Append(err, FieldError("steps"))
    /\ UNCHANGED <<geo, mat, heap, last, opt, inp, pass, prev, runner, client, cache>>

\* field sim_options
ValidateSimOptions ==
    /\ pc = "sim_options"
    /\ pc' = "mpm_options"
    /\ LET r == IF "sim_options" \in inp.omitted THEN sim_options_default
                ELSE SimOptions(inp.sim_options)
       IN  IF r.ok
           THEN cfg' = [cfg EXCEPT !.sim_options = r.val] /\ err' = err
           ELSE cfg' = cfg /\ err' = Append(err, FieldError("sim_options"))
    /\ UNCHANGED <<geo, mat, heap, last, opt, inp, pass, prev, runner, client, cache>>

\* field mpm_options
ValidateMPMOptions ==
    /\ pc = "mpm_options"
    /\ pc' = "static"
    /\ LET r == IF "mpm_options" \in inp.omitted THEN mpm_options_default
                ELSE MPMOptions(inp.mpm_options)
       IN  IF r.ok
           THEN cfg' = [cfg EXCEPT !.mpm_options = r.val] /\ err' = err
           ELSE cfg' = cfg /\ err' = Append(err, FieldError("mpm_options"))
    /\ UNCHANGED <<geo, mat, heap, last, opt, inp, pass, prev, runner, client, cache>>

\* field static
ValidateStatic ==
    /\ pc = "static"
    /\ pc' = "mpm_bodies"
    /\ LET r == IF "static" \in inp.omitted THEN static_default
                ELSE [i \in 1..Len(inp.static) |-> StaticObject(inp.static[i])]
       IN  IF \A i \in 1..Len(r) : r[i].ok
           THEN cfg' = [cfg EXCEPT !.static = [i \in 1..Len(r) |-> r[i].val]] /\ err' = err
           ELSE cfg' = cfg /\ err' = Append(err, FieldError("static"))
    /\ UNCHANGED <<geo, mat, heap, last, opt, inp, pass, prev, runner, client, cache>>

ValidateBodies_ignoring_errors ==
    /\ pc = "mpm_bodies"
    /\ pc' = "_require_bodies"
    /\ LET r == IF "mpm_bodies" \in inp.omitted THEN mpm_bodies_default
                ELSE [i \in 1..Len(inp.mpm_bodies) |-> MPMBody(inp.mpm_bodies[i])]
       IN  IF \A i \in 1..Len(r) : r[i].ok
           THEN cfg' = [cfg EXCEPT !.mpm_bodies = [i \in 1..Len(r) |-> r[i].val]] /\ err' = err
           ELSE cfg' = cfg /\ err' = Append(err, FieldError("mpm_bodies"))
    /\ UNCHANGED <<geo, mat, heap, last, opt, inp, pass, prev, runner, client, cache>>
\* field mpm_bodies, the last field with a validator: the pass ends here when
\* a field failed
ValidateBodies ==
    /\ pc = "mpm_bodies"
    /\ LET r == IF "mpm_bodies" \in inp.omitted THEN mpm_bodies_default
                ELSE [i \in 1..Len(inp.mpm_bodies) |-> MPMBody(inp.mpm_bodies[i])]
       IN  IF \A i \in 1..Len(r) : r[i].ok
           THEN /\ err' = err
                /\ pc' = IF err = <<>> THEN "_require_bodies" ELSE "Rejected"
                /\ cfg' = [cfg EXCEPT !.mpm_bodies = [i \in 1..Len(r) |-> r[i].val]]
           ELSE /\ err' = Append(err, FieldError("mpm_bodies"))
                /\ pc' = "Rejected"
                /\ cfg' = cfg
    /\ UNCHANGED <<geo, mat, heap, last, opt, inp, pass, prev, runner, client, cache>>

\* the first model validator
RequireBodies ==
    /\ pc = "_require_bodies"
    /\ IF _require_bodies(cfg)
       THEN pc' = "_check_or_fit_domain" /\ err' = err
       ELSE /\ pc' = "Rejected"
            /\ err' = << [kind |-> "too few bodies", validator |-> "_require_bodies"] >>
    /\ UNCHANGED <<geo, mat, heap, last, opt, inp, cfg, pass, prev, runner, client, cache>>

\* the second model validator
CheckOrFitDomain ==
    /\ pc = "_check_or_fit_domain"
    /\ LET r == _check_or_fit_domain(cfg)
       IN  /\ pc' = IF r.ok THEN "Valid" ELSE "Rejected"
           /\ cfg' = [cfg EXCEPT !.mpm_options = r.mpm_options]
           /\ err' = IF r.ok THEN err ELSE << r.error >>
    /\ UNCHANGED <<geo, mat, heap, last, opt, inp, pass, prev, runner, client, cache>>

\* genesis_simulator_from_json.build_scene: the dynamic bodies of the dumped
\* configuration d that are added to the scene, bodies_spec[:max_bodies]
build_scene_bodies(d) ==
    LET n == Len(d.mpm_bodies)
        k == IF d.max_bodies >= 0 THEN Min(n, d.max_bodies) ELSE Max(0, n + d.max_bodies)
    IN  SubSeq(d.mpm_bodies, 1, k)

\* cfg.model_dump(): the payload the editor shows
model_dump(c) ==
    [bounds_padding |-> c.bounds_padding, min_bodies |-> c.min_bodies,
     mpm_bodies |-> [i \in 1..Len(c.mpm_bodies) |->
                        [surface |-> [p |-> c.mpm_bodies[i].surface, kind |-> "dict"],
                         material |-> c.mpm_bodies[i].material,
                         morph |-> c.mpm_bodies[i].morph]],
     mpm_options |-> c.mpm_options,
     auto_fit_bounds |-> c.auto_fit_bounds,
     require_bodies_inside |-> c.require_bodies_inside,
     max_bodies |-> c.max_bodies,
     steps |-> c.steps[1], sim_options |-> c.sim_options,
     static |-> [i \in 1..Len(c.static) |->
                    [surface |-> [p |-> c.static[i].surface, kind |-> "dict"],
                     morph |-> c.static[i].morph]],
     omitted |-> {}]

\* MainWindow._apply_config_from_editor on the dumped configuration
Resubmit ==
    /\ pc = "Valid"
    /\ pass < MaxPasses
    /\ inp' = model_dump(cfg)
    /\ cfg' = Unvalidated(inp')
    /\ prev' = <<cfg.mpm_options.lower_bound, cfg.mpm_options.upper_bound>>
    /\ err' = <<>>
    /\ pass' = pass + 1
    /\ pc' = "steps"
    /\ UNCHANGED <<geo, mat, heap, last, opt, runner, client, cache>>

Init ==
    /\ inp \in Payloads
    /\ cfg = Unvalidated(inp)
    /\ pc = "steps"
    /\ err = <<>>
    /\ pass = 1
    /\ prev = None
    /\ mat = NoOp /\ heap = <<>> /\ last = NoOp /\ opt = NoOp /\ geo = NoOp
    /\ FrontendIdle

Next ==
    \/ ValidateSteps
    \/ ValidateSimOptions
    \/ ValidateMPMOptions
    \/ ValidateStatic
    \/ ValidateBodies
    \/ RequireBodies
    \/ CheckOrFitDomain
    \/ Resubmit

Spec == Init /\ [][Next]_vars

\* GenesisConfig.model_validate is one synchronous call: once started, a pass
\* runs its validators to the end; the editor may or may not re-submit.
\* Advance is a step of the pass under way: of the steps of Next, exactly
\* those of the seven validators satisfy it
Stages ==
    {"steps", "sim_options", "mpm_options", "static", "mpm_bodies",
     "_require_bodies", "_check_or_fit_domain", "Valid", "Rejected"}
Advance ==
    /\ pc \notin {"Valid", "Rejected"}
    /\ pc' \in Stages \ {pc}
    /\ pass' = pass
\* the passes over the payloads that keep the padding and the containment
\* check and give either no domain or one of two at grid density 16
PassPayloads ==
    { p \in Payloads :
        /\ p.bounds_padding = 15 /\ p.require_bodies_inside
        /\ \/ "mpm_options" \in p.omitted
           \/ /\ p.mpm_options.grid_density = 16
              /\ p.mpm_options.upper_bound \in {<<Unit, Unit, (3 * Unit) \div 2>>, <<0, 0, 0>>} }
InitPass == Init /\ inp \in PassPayloads
SpecPass == InitPass /\ [][Next]_vars /\ WF_<<pc, pass>>(Advance)

Idle == pc = "idle" /\ inp = None /\ cfg = None /\ err = <<>> /\ pass = 0 /\ prev = None

InitMaterial == Idle /\ mat = NoOp /\ heap = <<>> /\ last = NoOp /\ opt = NoOp /\ geo = NoOp
    /\ FrontendIdle
NextMaterial == \E p \in MaterialPayloads : ConstructMaterial(p)
SpecMaterial == InitMaterial /\ [][NextMaterial]_vars

InitScene == Idle /\ mat = NoOp /\ heap = <<>> /\ last = NoOp /\ opt = NoOp /\ geo = NoOp
    /\ FrontendIdle
NextScene ==
    \/ \E p \in SurfacePayloads : ConstructSurface(p)
    \/ \E morph \in SceneMorphs, arg \in SurfaceArgs : ConstructStaticObject(morph, arg)
    \/ \E m \in BodyMaterials, morph \in SceneMorphs, arg \in SurfaceArgs :
           ConstructMPMBody(m, morph, arg)
SpecScene == InitScene /\ [][NextScene]_vars

InitOptions == Idle /\ mat = NoOp /\ heap = <<>> /\ last = NoOp /\ opt = NoOp /\ geo = NoOp
    /\ FrontendIdle
NextOptions ==
    \/ \E dt \in DtInputs, n \in SubstepsInputs, g \in GravityInputs :
           ConstructSimOptions([gravity |-> g, dt |-> dt, substeps |-> n])
    \/ \E c \in CornerInputs, g \in GridInputs :
           ConstructMPMOptions([grid_density |-> g, lower_bound |-> c[1], upper_bound |-> c[2]])
SpecOptions == InitOptions /\ [][NextOptions]_vars

InitGeometry == Idle /\ mat = NoOp /\ heap = <<>> /\ last = NoOp /\ opt = NoOp /\ geo = NoOp
    /\ FrontendIdle
NextGeometry ==
    \/ \E m \in GeoMorphs : ComputeAabb(m)
    \/ \E m \in ListMorphs, n \in ListMorphs : UnionPair(aabb(m), aabb(n))
    \/ \E ms \in MorphLists : UnionBodies(ms)
SpecGeometry == InitGeometry /\ [][NextGeometry]_vars

InitRunner ==
    /\ Idle /\ mat = NoOp /\ heap = <<>> /\ last = NoOp /\ opt = NoOp /\ geo = NoOp
    /\ FrontendIdle
NextRunner ==
    \/ \E outcome \in UpdateOutcomes : RunnerUpdateConfig(outcome)
    \/ \E build_ok \in BOOLEAN : RunnerStart(build_ok)
    \/ RunnerStop
    \/ RunnerEnd
    \/ \E step_ok \in BOOLEAN : RunnerTick(step_ok)
SpecRunner == InitRunner /\ [][NextRunner]_vars

InitClient ==
    /\ Idle /\ mat = NoOp /\ heap = <<>> /\ last = NoOp /\ opt = NoOp /\ geo = NoOp
    /\ runner = GenesisRunner_init /\ cache = EmptyCache
    /\ \E use_API \in BOOLEAN : client = LLMClient_init(use_API)
NextClient == \E user_text \in UserTexts, outcome \in SendOutcomes : ClientSend(user_text, outcome)
SpecClient == InitClient /\ [][NextClient]_vars

InitCache ==
    /\ Idle /\ mat = NoOp /\ heap = <<>> /\ last = NoOp /\ opt = NoOp /\ geo = NoOp
    /\ FrontendIdle
NextCache ==
    \/ \E t \in Requests, endpoint \in Endpoints, key \in Keys : Receive(t, endpoint, key)
    \/ \E t \in Requests : TestKey(t)
    \/ \E t \in Requests : Construct(t)
    \/ \E t \in Requests : StoreInstance(t)
    \/ \E t \in Requests : ReturnInstance(t)
SpecCache == InitCache /\ [][NextCache]_vars

(***************************************************************************)
(* The claims                                                              *)
(***************************************************************************)
Terminal == pc \in {"Valid", "Rejected"}

\* the domain corners of the configuration
Domain == <<cfg.mpm_options.lower_bound, cfg.mpm_options.upper_bound>>

\* mpm_options as the payload gives it, the declared defaults when it is
\* left out
GivenOptions ==
    IF "mpm_options" \in inp.omitted THEN MPMOptionsDefault ELSE inp.mpm_options

\* the effective domain of mpm_options o: the raw corners moved inward by
\* 2 x (largest extent / grid resolution)
EffectiveOf(o) ==
    LET m == safety_of(o.lower_bound, o.upper_bound, o.grid_density)
    IN  << [i \in 1..3 |-> o.lower_bound[i] + m], [i \in 1..3 |-> o.upper_bound[i] - m] >>

\* box lies within the corners lo and hi, equality included
Within(box, lo, hi) ==
    \A i \in 1..3 : lo[i] <= box[1][i] /\ box[2][i] <= hi[i]

\* the union box of the configuration's bodies lies within its effective domain
BodiesWithinEffective ==
    Within(bodies_aabb(cfg.mpm_bodies), EffectiveOf(cfg.mpm_options)[1],
           EffectiveOf(cfg.mpm_options)[2])

\* C1: with auto_fit_bounds enabled, a second validation pass on the dumped
\* output of a successful pass leaves lower_bound and upper_bound as the
\* first pass left them.
C1_AutoFitIdempotent ==
    (pc = "Valid" /\ pass > 1 /\ cfg.auto_fit_bounds) => Domain = prev

\* C2: every accepted configuration has the union box of its finite bodies
\* inside its final domain shrunk by the safety margin of that final domain.
C2_AcceptedBodiesInsideEffective ==
    (pc = "Valid" /\ bodies_aabb(cfg.mpm_bodies) # None) => BodiesWithinEffective

\* the containment test of the domain check was reached: the pass ended and
\* nothing before the test raised
ReachedContainmentTest ==
    /\ Terminal
    /\ \A i \in 1..Len(err) : err[i].kind = "bodies outside"
    /\ bodies_aabb(cfg.mpm_bodies) # None

\* the error is the domain violation carrying the raw corners, the effective
\* corners and the bodies' union box
DomainViolationRaised ==
    /\ pc = "Rejected"
    /\ cfg.mpm_options # None
    /\ err = << [raw |-> Domain, kind |-> "bodies outside",
                 bodies |-> bodies_aabb(cfg.mpm_bodies), validator |-> "_check_or_fit_domain",
                 effective |-> EffectiveOf(cfg.mpm_options)] >>

StrictlyOrdered(lb, ub) == \A i \in 1..3 : lb[i] < ub[i]
CornerOrderError == \E i \in 1..Len(err) : err[i].kind = "corner order"

\* C4 as stated: validation never fails because of corner ordering, and every
\* accepted configuration has lower_bound < upper_bound on every axis.
C4_OrderingNeverRejects ==
    /\ ~CornerOrderError
    /\ pc = "Valid" => StrictlyOrdered(Domain[1], Domain[2])

\* C4 amended: corners mis-ordered on an axis are swapped; validation fails on
\* corner ordering exactly when the corners are equal on some axis; every
\* accepted configuration has lower_bound < upper_bound on every axis.
C4_OrderingRepairedUnlessEqual ==
    /\ (pc = "static" /\ cfg.mpm_options # None) =>
          \A i \in 1..3 :
             /\ cfg.mpm_options.lower_bound[i]
                   = Min(GivenOptions.lower_bound[i], GivenOptions.upper_bound[i])
             /\ cfg.mpm_options.upper_bound[i]
                   = Max(GivenOptions.lower_bound[i], GivenOptions.upper_bound[i])
    /\ CornerOrderError =>
          \E i \in 1..3 : GivenOptions.lower_bound[i] = GivenOptions.upper_bound[i]
    /\ (pc = "Rejected" /\ cfg.mpm_options # None /\ ~CornerOrderError
           /\ \A i \in 1..Len(err) : err[i].validator = "_check_or_fit_domain") =>
          StrictlyOrdered(Domain[1], Domain[2])
    /\ pc = "Valid" => StrictlyOrdered(Domain[1], Domain[2])
C4_Witness ==
    /\ pc = "Valid" /\ pass = 1
    /\ GivenOptions.lower_bound[1] > GivenOptions.upper_bound[1]
    /\ Domain[1][1] = GivenOptions.upper_bound[1]

\* C5 as stated: for every numeric dt, substeps and grid_density the
\* construction of SimOptions and MPMOptions succeeds, the value clamped into
\* its range.
C5_FieldStageNeverRejects ==
    /\ opt.op = "SimOptions" =>
          /\ opt.res.ok
          /\ 10 <= opt.res.val.dt /\ opt.res.val.dt <= 5000
          /\ 1 <= opt.res.val.substeps /\ opt.res.val.substeps <= 50
    /\ opt.op = "MPMOptions" =>
          /\ opt.res.ok
          /\ 16 <= opt.res.val.grid_density /\ opt.res.val.grid_density <= 512

\* the nearest value of the closed interval [lo, hi]
Nearest(x, lo, hi) == IF x < lo THEN lo ELSE IF x > hi THEN hi ELSE x

\* C5 amended: construction fails exactly when dt is outside (0, 0.1],
\* substeps outside [1, 10000] or grid_density below 8; every other value is
\* accepted and clamped to the nearest value of [1e-5, 5e-3], [1, 50] and
\* [16, 512].
C5_RejectsOutsideGuardsElseClamps ==
    /\ opt.op = "SimOptions" =>
          /\ opt.res.ok <=> /\ 0 < opt.raw.dt /\ opt.raw.dt <= 100000
                            /\ 1 <= opt.raw.substeps /\ opt.raw.substeps <= 10000
          /\ opt.res.ok => /\ opt.res.val.dt = Nearest(opt.raw.dt, 10, 5000)
                           /\ opt.res.val.substeps = Nearest(opt.raw.substeps, 1, 50)
    /\ opt.op = "MPMOptions" =>
          /\ opt.res.ok <=> opt.raw.grid_density >= 8
          /\ opt.res.ok => opt.res.val.grid_density = Nearest(opt.raw.grid_density, 16, 512)
C5_Witness ==
    /\ opt.op = "SimOptions"
    /\ opt.raw.dt = 1 /\ opt.raw.substeps = 10000
    /\ opt.res.ok /\ opt.res.val.dt = 10 /\ opt.res.val.substeps = 50

\* C6: every material construction succeeds with the stored values inside
\* the variant's closed interval, and a value already inside is unchanged.
C6_MaterialsClamped ==
    mat.op = "Material" =>
        /\ mat.val.type = mat.raw.type
        /\ mat.raw.type = "Elastic" =>
              /\ mat.val.rho = Nearest(mat.raw.rho, 100, 10000)
              /\ mat.val.E = Nearest(mat.raw.E, 10, 10000000)
              /\ mat.val.nu = Nearest(mat.raw.nu, 0, 49)
        /\ mat.raw.type = "Snow" => mat.val.rho = Nearest(mat.raw.rho, 50, 800)
        /\ mat.raw.type = "Sand" => mat.val.rho = Nearest(mat.raw.rho, 1200, 2200)
        /\ mat.raw.type = "Liquid" => mat.val.rho = Nearest(mat.raw.rho, 800, 1300)
C6_Witness ==
    /\ mat.op = "Material" /\ mat.raw.type = "Elastic"
    /\ mat.raw.nu = 70 /\ mat.val.nu = 49
    /\ mat.raw.rho < 0 /\ mat.val.rho = 100
    /\ mat.raw.E = 10000001 /\ mat.val.E = 10000000

\* the spellings of the particle mode among the inputs
ParticleSpellings == { PARTICLE, << "P", "A", "R", "T", "I", "C", "L", "E" >>,
                       << "P", "a", "r", "t", "i", "c", "l", "e" >> }

\* the render mode of the object last constructed
ModeOfLast == heap[last.surface].vis_mode

\* C7: a StaticObject whose render mode is set to the particle mode, in any
\* letter case, fails validation, and no accepted static object has the
\* render mode particle.
C7_StaticParticleRejected ==
    last.op = "StaticObject" =>
        /\ (last.arg.kind = "dict" /\ last.arg.p.vis_mode \in ParticleSpellings) => ~last.ok
        /\ (last.arg.kind = "instance" /\ last.given = PARTICLE) => ~last.ok
        /\ last.ok => ModeOfLast # PARTICLE
C7_Witness ==
    /\ last.op = "StaticObject" /\ last.morph.type = "Sphere"
    /\ last.arg.kind = "dict"
    /\ last.arg.p.vis_mode = << "P", "a", "r", "t", "i", "c", "l", "e" >>
    /\ ~last.ok

\* C8: a dynamic body whose render mode is unset is accepted with recon when
\* its material is Elastic and with particle for Snow, Sand and Liquid.
C8_BodyDefaultByMaterial ==
    (last.op = "MPMBody" /\ last.arg.kind # "missing" /\ last.given = None) =>
        /\ last.ok
        /\ last.material.type = "Elastic" => ModeOfLast = RECON
        /\ last.material.type \in {"Snow", "Sand", "Liquid"} => ModeOfLast = PARTICLE
C8_Witness ==
    /\ last.op = "MPMBody" /\ last.arg.kind = "dict" /\ last.given = None
    /\ last.material.type = "Elastic" /\ last.ok /\ ModeOfLast = RECON

\* C9: a static object whose render mode is unset is accepted with the mode
\* visual, whatever its shape.
C9_StaticDefaultVisual ==
    (last.op = "StaticObject" /\ last.arg.kind # "missing" /\ last.given = None) =>
        (last.ok /\ ModeOfLast = VISUAL)
C9_Witness ==
    /\ last.op = "StaticObject" /\ last.morph.type = "Box"
    /\ last.arg.kind = "instance" /\ last.given = None
    /\ last.ok /\ ModeOfLast = VISUAL

\* C10 as stated: an object submitted with no surface at all is accepted, a
\* static object with the mode visual and a Sand body with the mode particle.
C10_NoSurfaceAccepted ==
    /\ (last.op = "StaticObject" /\ last.arg.kind = "missing") =>
          (last.ok /\ ModeOfLast = VISUAL)
    /\ (last.op = "MPMBody" /\ last.arg.kind = "missing" /\ last.material.type = "Sand") =>
          (last.ok /\ ModeOfLast = PARTICLE)

\* C10 amended: an object whose surface is given without a render mode is
\* accepted, a static Plane with visual and a Sand body with particle; an
\* object submitted with no surface at all is rejected (surface is required).
C10_EmptySurfaceAcceptedMissingRejected ==
    /\ (last.op \in {"StaticObject", "MPMBody"} /\ last.arg.kind = "missing") => ~last.ok
    /\ (last.op = "StaticObject" /\ last.morph = PlaneMorph /\ last.arg.kind = "dict"
           /\ last.arg.p.vis_mode = None) => (last.ok /\ ModeOfLast = VISUAL)
    /\ (last.op = "MPMBody" /\ last.material.type = "Sand" /\ last.arg.kind = "dict"
           /\ last.arg.p.vis_mode = None) => (last.ok /\ ModeOfLast = PARTICLE)
C10_Witness ==
    /\ last.op = "MPMBody" /\ last.material.type = "Sand"
    /\ last.arg.kind = "missing" /\ ~last.ok

\* C11 as stated: a payload that omits optional fields validates with the
\* defaults; in particular a payload with no mpm_bodies field gets the default
\* list of one dynamic body (default elastic material, default surface) and
\* reaches Valid.
C11_OmittedFieldsValidate ==
    (Terminal /\ "mpm_bodies" \in inp.omitted) =>
        /\ pc = "Valid"
        /\ Len(cfg.mpm_bodies) = 1
        /\ cfg.mpm_bodies[1].material = ElasticDefault
        /\ cfg.mpm_bodies[1].morph.type = "Box"

\* no field of the payload failed its validation
NoFieldError == \A i \in 1..Len(err) : err[i].validator # "field"

\* C12: a configuration with fewer dynamic bodies than a positive min_bodies
\* is rejected (by _require_bodies when every field validated), zero bodies
\* under the default minimum 1 included, and every accepted configuration
\* with min_bodies > 0 has at least min_bodies dynamic bodies.
C12_MinimumBodiesEnforced ==
    /\ (Terminal /\ "mpm_bodies" \notin inp.omitted /\ inp.min_bodies > 0
           /\ Len(inp.mpm_bodies) < inp.min_bodies)
          => /\ pc = "Rejected"
             /\ NoFieldError =>
                    err = << [kind |-> "too few bodies", validator |-> "_require_bodies"] >>
    /\ (pc = "Valid" /\ cfg.min_bodies > 0) => Len(cfg.mpm_bodies) >= cfg.min_bodies
C12_Witness ==
    /\ pc = "Rejected" /\ "mpm_bodies" \notin inp.omitted
    /\ inp.mpm_bodies = <<>> /\ inp.min_bodies = 1
    /\ err = << [kind |-> "too few bodies", validator |-> "_require_bodies"] >>

\* C13: a configuration whose step count is below 1, zero or negative, is
\* rejected with the error of the steps field and no configuration is built,
\* and every accepted configuration has steps >= 1.
C13_StepsBelowOneRejected ==
    /\ (Terminal /\ "steps" \notin inp.omitted /\ inp.steps < 1)
          => (pc = "Rejected" /\ \E i \in 1..Len(err) : err[i] = FieldError("steps"))
    /\ pc = "Valid" => cfg.steps[1] >= 1
C13_Witness ==
    /\ pc = "Rejected" /\ "steps" \notin inp.omitted /\ inp.steps = 0
    /\ err = << FieldError("steps") >> /\ cfg.steps = None

\* the pass ended and nothing before _check_or_fit_domain raised
ReachedDomainCheck ==
    /\ Terminal
    /\ \A i \in 1..Len(err) : err[i].validator = "_check_or_fit_domain"

\* mpm_options as the field-level validation of this pass left it
ClampedOptions ==
    IF "mpm_options" \in inp.omitted THEN mpm_options_default.val
    ELSE MPMOptions(inp.mpm_options).val

\* no dynamic body has a finite bounding box: there is none, or all are Planes
NoFiniteBody ==
    \A i \in 1..Len(cfg.mpm_bodies) : cfg.mpm_bodies[i].morph.type = "Plane"

\* C14 as stated: with no finite bounding box among the dynamic bodies the
\* domain check neither grows the domain nor fails, and mpm_options stays as
\* the field-level clamping left it, whatever auto_fit_bounds is.
C14_NoFiniteBoxNeverFails ==
    (ReachedDomainCheck /\ NoFiniteBody) =>
        (pc = "Valid" /\ cfg.mpm_options = ClampedOptions)

\* C14 amended: the same when the clamped corners are strictly ordered on
\* every axis; when two corners are equal on an axis the domain check fails
\* on the corner order before it looks at the bodies.  In both cases
\* mpm_options stays as the field-level clamping left it.
C14_NoFiniteBoxLeavesDomain ==
    (ReachedDomainCheck /\ NoFiniteBody) =>
        /\ cfg.mpm_options = ClampedOptions
        /\ IF StrictlyOrdered(ClampedOptions.lower_bound, ClampedOptions.upper_bound)
           THEN pc = "Valid"
           ELSE pc = "Rejected" /\ CornerOrderError
C14_Witness ==
    /\ pc = "Valid" /\ pass = 1 /\ cfg.auto_fit_bounds
    /\ Len(cfg.mpm_bodies) = 2 /\ NoFiniteBody
    /\ GivenOptions.lower_bound[1] > GivenOptions.upper_bound[1]
    /\ cfg.mpm_options = ClampedOptions

\* the bodies' union box lies within the effective domain of the clamped
\* mpm_options, equality counting as contained
ContainedInClamped ==
    /\ ~NoFiniteBody
    /\ Within(bodies_aabb(cfg.mpm_bodies), EffectiveOf(ClampedOptions)[1],
              EffectiveOf(ClampedOptions)[2])

\* C15 as stated: when the bodies' union box lies within the effective domain
\* on every axis and both corners, equality included, validation accepts the
\* configuration and leaves both corners unchanged, whatever auto_fit_bounds.
C15_ContainedAccepted ==
    (ReachedDomainCheck /\ ContainedInClamped) =>
        (pc = "Valid" /\ cfg.mpm_options = ClampedOptions)

\* C15 amended: the same for a domain whose corners are strictly ordered on
\* every axis; a domain that is a single point is rejected on the corner
\* order even when the bodies' box is that point.
C15_ContainedAcceptedWhenOrdered ==
    (ReachedDomainCheck /\ ContainedInClamped) =>
        /\ cfg.mpm_options = ClampedOptions
        /\ IF StrictlyOrdered(ClampedOptions.lower_bound, ClampedOptions.upper_bound)
           THEN pc = "Valid"
           ELSE pc = "Rejected" /\ CornerOrderError
C15_Witness ==
    /\ pc = "Valid" /\ pass = 1 /\ cfg.auto_fit_bounds /\ ContainedInClamped
    /\ bodies_aabb(cfg.mpm_bodies)[2][3] = EffectiveOf(ClampedOptions)[2][3]
    /\ bodies_aabb(cfg.mpm_bodies)[1][3] = EffectiveOf(ClampedOptions)[1][3]
    /\ cfg.mpm_options = ClampedOptions

\* the scenario of C16: the first pass on the domain (-1,-1,0)..(1,1,1.5) at
\* grid resolution 64 with a single Box centred at the origin, extents 0.4
C16_Scenario ==
    /\ pass = 1 /\ inp.omitted = {}
    /\ inp.mpm_options = [grid_density |-> 64, lower_bound |-> <<-Unit, -Unit, 0>>,
                          upper_bound |-> <<Unit, Unit, (3 * Unit) \div 2>>]
    /\ Len(inp.mpm_bodies) = 1
    /\ inp.mpm_bodies[1].morph =
           BoxMorph(<<0, 0, 0>>, <<(2 * Unit) \div 5, (2 * Unit) \div 5, (2 * Unit) \div 5>>)

\* C16 as stated: in the scenario the body is within the effective domain, so
\* validation ends Valid with both domain corners unchanged.
C16_OriginBoxFits ==
    (ReachedDomainCheck /\ C16_Scenario) =>
        /\ pc = "Valid"
        /\ Domain = <<inp.mpm_options.lower_bound, inp.mpm_options.upper_bound>>

\* the padding of the scenario: the larger of bounds_padding x the diagonal of
\* the 0.4 cube and the safety margin 2 x 2.0 / 64
C16_Pad ==
    Max((cfg.bounds_padding * Sqrt(3 * ((2 * Unit) \div 5) * ((2 * Unit) \div 5))) \div 100,
        (2 * (2 * Unit)) \div 64)

\* C16 amended: the box spans z = -0.2 .. 0.2, below the floor z = 0 of the
\* domain, so it is not within the effective domain.  With auto-fit enabled
\* validation ends Valid with the lower corner's z lowered to -0.2 - pad and
\* every other coordinate unchanged; with auto-fit disabled it is rejected
\* with the domain violation, or, with require_bodies_inside disabled too,
\* accepted with the domain unchanged.
C16_OriginBoxGrowsDomain ==
    (ReachedDomainCheck /\ C16_Scenario) =>
        IF cfg.auto_fit_bounds
        THEN /\ pc = "Valid"
             /\ Domain = << <<-Unit, -Unit, -(Unit \div 5) - C16_Pad>>,
                            <<Unit, Unit, (3 * Unit) \div 2>> >>
        ELSE IF cfg.require_bodies_inside
        THEN DomainViolationRaised
        ELSE /\ pc = "Valid"
             /\ Domain = <<inp.mpm_options.lower_bound, inp.mpm_options.upper_bound>>
C16_Witness ==
    /\ pc = "Valid" /\ C16_Scenario /\ cfg.auto_fit_bounds
    /\ cfg.bounds_padding > 0
    /\ Domain[1][3] < -(Unit \div 5)
    /\ Domain[2] = inp.mpm_options.upper_bound

\* the bodies have a finite union box and it is not within the effective
\* domain of the clamped mpm_options
OutsideClamped ==
    /\ ~NoFiniteBody
    /\ ~Within(bodies_aabb(cfg.mpm_bodies), EffectiveOf(ClampedOptions)[1],
               EffectiveOf(ClampedOptions)[2])

\* max(bounds_padding x Euclidean diagonal of the union box, safety margin of
\* the domain before the growth)
C17_Pad ==
    LET box == bodies_aabb(cfg.mpm_bodies)
        d == [i \in 1..3 |-> box[2][i] - box[1][i]]
        o == ClampedOptions
    IN  Max((cfg.bounds_padding * Sqrt(d[1] * d[1] + d[2] * d[2] + d[3] * d[3])) \div 100,
            safety_of(o.lower_bound, o.upper_bound, o.grid_density))

\* C17: when the bodies are not contained and auto-fit is enabled, on every
\* axis new_lower = min(old lower, box lower - pad) and new_upper =
\* max(old upper, box upper + pad), with pad the larger of bounds_padding x
\* the box diagonal and the safety margin of the domain before the growth;
\* so every face of the grown domain is at least pad away from the union box.
C17_GrownByPad ==
    (pc = "Valid" /\ cfg.auto_fit_bounds /\ OutsideClamped) =>
        LET box == bodies_aabb(cfg.mpm_bodies)
            old == ClampedOptions
        IN  /\ \A i \in 1..3 :
                  /\ Domain[1][i] = Min(old.lower_bound[i], box[1][i] - C17_Pad)
                  /\ Domain[2][i] = Max(old.upper_bound[i], box[2][i] + C17_Pad)
                  /\ Domain[1][i] <= box[1][i] - C17_Pad
                  /\ Domain[2][i] >= box[2][i] + C17_Pad
            /\ cfg.mpm_options.grid_density = old.grid_density
C17_Witness ==
    /\ pc = "Valid" /\ pass = 1 /\ cfg.auto_fit_bounds /\ OutsideClamped
    /\ Len(cfg.mpm_bodies) = 1 /\ cfg.mpm_bodies[1].morph.type = "Sphere"
    /\ cfg.bounds_padding = 0
    /\ Domain[2][1] > ClampedOptions.upper_bound[1]
    /\ Domain[2][1] >= (21 * Unit) \div 20 + C17_Pad

\* C18: the safety margin of the containment test is 2 x (largest of the three
\* raw extents) / max(1, grid_density), the effective corners reported by the
\* domain violation are the raw corners moved inward by that one value on all
\* three axes, and the divisor is at least 1 whenever the test is reached.
C18_SafetyMargin ==
    /\ (pc = "Rejected" /\ err # <<>> /\ err[1].kind = "bodies outside") =>
          LET raw == err[1].raw
              eff == err[1].effective
              ext == [i \in 1..3 |-> raw[2][i] - raw[1][i]]
              largest == CHOOSE e \in {ext[i] : i \in 1..3} : \A i \in 1..3 : e >= ext[i]
              g == cfg.mpm_options.grid_density
              margin == (2 * largest) \div (IF g >= 1 THEN g ELSE 1)
          IN  \A i \in 1..3 : /\ eff[1][i] = raw[1][i] + margin
                              /\ eff[2][i] = raw[2][i] - margin
    /\ (ReachedDomainCheck /\ ~NoFiniteBody) => cfg.mpm_options.grid_density >= 1
C18_Witness ==
    /\ pc = "Rejected" /\ err # <<>> /\ err[1].kind = "bodies outside"
    /\ cfg.mpm_options.grid_density = 64
    /\ err[1].effective[1][3] - err[1].raw[1][3] = (2 * (2 * Unit)) \div 64
    /\ err[1].raw[2][1] - err[1].effective[2][1] = (2 * (2 * Unit)) \div 64

\* C19: for every Box and Sphere, negative and zero sizes and radii included,
\* aabb() returns a pair (min, max) with min = centre - |size|/2 and max =
\* centre + |size|/2 (Box), centre -/+ |radius| (Sphere), and min <= max on
\* every axis; it returns such a pair for every input.
C19_AabbWellFormed ==
    /\ (geo.op = "aabb" /\ geo.morph.type = "Box") =>
          /\ geo.box # None
          /\ \A i \in 1..3 :
                /\ 2 * (geo.box[2][i] - geo.morph.pos[i]) = Abs(geo.morph.size[i])
                /\ 2 * (geo.morph.pos[i] - geo.box[1][i]) = Abs(geo.morph.size[i])
                /\ geo.box[1][i] <= geo.box[2][i]
    /\ (geo.op = "aabb" /\ geo.morph.type = "Sphere") =>
          /\ geo.box # None
          /\ \A i \in 1..3 :
                /\ geo.box[2][i] - geo.morph.pos[i] = Abs(geo.morph.radius)
                /\ geo.morph.pos[i] - geo.box[1][i] = Abs(geo.morph.radius)
                /\ geo.box[1][i] <= geo.box[2][i]
C19_Witness ==
    /\ geo.op = "aabb" /\ geo.morph.type = "Box"
    /\ geo.morph.size[1] < 0 /\ geo.morph.size[2] = 0 /\ geo.morph.size[3] > 0
    /\ geo.box[1][1] < geo.box[2][1] /\ geo.box[1][2] = geo.box[2][2]

\* the finite boxes of a list of morphs, the Planes left out
FiniteBoxes(ms) == { aabb(ms[i]) : i \in { j \in 1..Len(ms) : ms[j].type # "Plane" } }
Least(S) == CHOOSE v \in S : \A w \in S : v <= w
Greatest(S) == CHOOSE v \in S : \A w \in S : v >= w

\* C20: a Plane has no bounding box; _aabb_union returns the other argument
\* when one is None; and the union over a list of bodies is None when no body
\* is finite and otherwise the componentwise min/max over the finite boxes
\* only, wherever the Planes stand in the list.
C20_NoneIsIdentity ==
    /\ (geo.op = "aabb" /\ geo.morph.type = "Plane") => geo.box = None
    /\ geo.op = "_aabb_union" =>
          /\ geo.a = None => geo.box = geo.b
          /\ geo.b = None => geo.box = geo.a
    /\ geo.op = "bodies_aabb" =>
          IF FiniteBoxes(geo.morphs) = {}
          THEN geo.box = None
          ELSE /\ geo.box # None
               /\ \A i \in 1..3 :
                     /\ geo.box[1][i] = Least({ b[1][i] : b \in FiniteBoxes(geo.morphs) })
                     /\ geo.box[2][i] = Greatest({ b[2][i] : b \in FiniteBoxes(geo.morphs) })
C20_Witness ==
    /\ geo.op = "bodies_aabb" /\ Len(geo.morphs) = MaxMorphs
    /\ geo.morphs[1].type = "Plane" /\ geo.morphs[2].type = "Box"
    /\ geo.morphs[3].type = "Plane"
    /\ geo.box = aabb(geo.morphs[2])

\* |g|, in units of 0.01 m/s^2
Magnitude(g) == Sqrt(g[1] * g[1] + g[2] * g[2] + g[3] * g[3])

\* C21: a gravity vector of magnitude above 50 is replaced by the same vector
\* times the one factor 50/|g| (each component g[i] x 50/|g| to within one
\* quantum, its sign kept, the new magnitude 50 to within the rounding of
\* three components), and a vector of magnitude at most 50 is left unchanged.
C21_GravityRescaled ==
    (opt.op = "SimOptions" /\ opt.res.ok) =>
        LET g == opt.raw.gravity
            new == opt.res.val.gravity
        IN  IF Magnitude(g) > GravityMax
            THEN /\ \A i \in 1..3 :
                       /\ Abs(new[i] * Magnitude(g) - g[i] * GravityMax) < Magnitude(g)
                       /\ g[i] > 0 => new[i] > 0
                       /\ g[i] < 0 => new[i] < 0
                       /\ g[i] = 0 => new[i] = 0
                 /\ Abs(Magnitude(new) - GravityMax) <= 2
            ELSE new = g
C21_Witness ==
    /\ opt.op = "SimOptions" /\ opt.res.ok
    /\ opt.raw.gravity = <<6000, 0, -8000>>
    /\ opt.res.val.gravity = <<3000, 0, -4000>>

\* C22: every options block that was constructed holds dt in [1e-5, 5e-3],
\* substeps in [1, 50] and grid_density in [16, 512], and the grid resolution
\* the domain check reads is inside [16, 512].
C22_OptionsInsideRanges ==
    /\ (opt.op = "SimOptions" /\ opt.res.ok) =>
          /\ DtLo <= opt.res.val.dt /\ opt.res.val.dt <= DtHi
          /\ SubstepsLo <= opt.res.val.substeps /\ opt.res.val.substeps <= SubstepsHi
    /\ (opt.op = "MPMOptions" /\ opt.res.ok) =>
          /\ GridLo <= opt.res.val.grid_density
          /\ opt.res.val.grid_density <= GridHi
    /\ pc \in {"_require_bodies", "_check_or_fit_domain", "Valid"} =>
          /\ GridLo <= cfg.mpm_options.grid_density
          /\ cfg.mpm_options.grid_density <= GridHi
C22_Witness ==
    /\ opt.op = "MPMOptions" /\ opt.res.ok
    /\ opt.raw.grid_density = 8
    /\ opt.res.val.grid_density = GridLo

\* the position of a validator in the pass as the code runs it
Rank(p) ==
    CASE p = "steps" -> 1
      [] p = "sim_options" -> 2
      [] p = "mpm_options" -> 3
      [] p = "static" -> 4
      [] p = "mpm_bodies" -> 5
      [] p = "_require_bodies" -> 6
      [] p = "_check_or_fit_domain" -> 7
      [] p \in {"Valid", "Rejected"} -> 8

\* the stage of a validator in the order the claim gives: field clamping,
\* then the body-count and step-count checks, then corner ordering and
\* domain fit
StatedStage(p) ==
    CASE p \in {"sim_options", "mpm_options", "static", "mpm_bodies"} -> 1
      [] p \in {"steps", "_require_bodies"} -> 2
      [] p = "_check_or_fit_domain" -> 3
      [] p \in {"Valid", "Rejected"} -> 4

\* C23 as stated: within a pass the stages run in the order field clamping,
\* body-count/step-count check, corner ordering and domain fit, never back.
C23_StatedStageOrder ==
    [][pass' = pass => StatedStage(pc') >= StatedStage(pc)]_<<pc, pass>>

\* one step of a pass, or the start of the next pass
C23_Step ==
    /\ pass' = pass => Rank(pc') > Rank(pc)
    /\ pass' # pass => (pc = "Valid" /\ pass' = pass + 1 /\ pc' = "steps")
    /\ pc' \in {"_require_bodies", "_check_or_fit_domain", "Valid"} => err' = <<>>
    /\ (pass' = pass /\ cfg.mpm_options # None /\ cfg'.mpm_options # cfg.mpm_options)
          => (pc = "_check_or_fit_domain" /\ err = <<>>)
    /\ (pass' = pass /\ err # <<>> /\ pc \in {"_require_bodies", "_check_or_fit_domain"})
          => FALSE

\* C23 amended: within a pass every validator runs at most once, in the order
\* steps check, field clamping (sim_options, mpm_options, static, mpm_bodies;
\* every field is validated even after an earlier one failed), body-count
\* check, corner ordering and domain fit; the body-count check and the domain
\* check run only when every field validated, the domain check only when the
\* body count passed, so a pass rejected for its step count or its body count
\* never has its domain grown; and every pass ends in Valid or in Rejected.
C23_OneShotPass ==
    /\ [][C23_Step]_<<pc, pass>>
    /\ [](pc = "Rejected" => (cfg.mpm_options = None \/ cfg.mpm_options = ClampedOptions))
    /\ (~Terminal) ~> Terminal
C23_Witness ==
    /\ pc = "Rejected" /\ err = << FieldError("steps") >>
    /\ cfg.auto_fit_bounds /\ "mpm_bodies" \notin inp.omitted
    /\ Len(inp.mpm_bodies) = 1 /\ inp.mpm_bodies[1].morph.type = "Sphere"
    /\ cfg.mpm_options = ClampedOptions /\ cfg.mpm_bodies # None


\* C24 as stated: a validation pass touches only its own data; a Surface
\* instance handed to a StaticObject or an MPMBody has, after the object is
\* accepted, the render mode it had when it was handed in.
C24_GivenInstanceUntouched ==
    (last.op \in {"StaticObject", "MPMBody"} /\ last.arg.kind = "instance" /\ last.ok) =>
        heap[last.arg.ref].vis_mode = last.given


\* C25: validation never moves a domain corner inward; once the options are
\* validated, on every axis the lower corner of the configuration is at most
\* the smaller and its upper corner at least the greater of the two corners
\* the payload gave, for every body set and every setting of the flags.
C25_NeverInward ==
    cfg.mpm_options # None =>
        \A i \in 1..3 :
            /\ cfg.mpm_options.lower_bound[i]
                  <= Min(GivenOptions.lower_bound[i], GivenOptions.upper_bound[i])
            /\ cfg.mpm_options.upper_bound[i]
                  >= Max(GivenOptions.lower_bound[i], GivenOptions.upper_bound[i])
C25_Witness ==
    /\ pc = "Valid" /\ "mpm_options" \notin inp.omitted
    /\ inp.mpm_options.lower_bound[1] > inp.mpm_options.upper_bound[1]
    /\ cfg.mpm_options.lower_bound[1] = inp.mpm_options.upper_bound[1]
    /\ cfg.mpm_options.upper_bound[1] > inp.mpm_options.lower_bound[1]
    /\ cfg.mpm_options.lower_bound[3] < inp.mpm_options.lower_bound[3]


\* the default render mode of the object last constructed, by its context
ContextDefault ==
    IF last.op = "StaticObject" THEN VISUAL
    ELSE IF last.material.type = "Elastic" THEN RECON ELSE PARTICLE

\* C26: in every accepted StaticObject and MPMBody the render mode is set and
\* is one of visual, collision, particle, sdf, recon; a supplied mode inside
\* the set, in any letter case, is kept, and a supplied mode outside the set
\* is replaced by the default of the context.
C26_RenderModeResolved ==
    (last.op \in {"StaticObject", "MPMBody"} /\ last.ok) =>
        /\ ModeOfLast # None
        /\ ModeOfLast \in _ALLOWED
        /\ (last.arg.kind = "dict" /\ last.arg.p.vis_mode # None) =>
              IF lower(last.arg.p.vis_mode) \in _ALLOWED
              THEN ModeOfLast = lower(last.arg.p.vis_mode)
              ELSE ModeOfLast = ContextDefault
        /\ (last.arg.kind = "instance" /\ last.given # None) => ModeOfLast = last.given
C26_Witness ==
    /\ last.op = "MPMBody" /\ last.ok /\ last.material.type = "Snow"
    /\ last.arg.kind = "dict"
    /\ last.arg.p.vis_mode = << "m", "e", "s", "h" >>
    /\ ModeOfLast = PARTICLE


\* C27 as stated: every accepted configuration has at most max_bodies dynamic
\* bodies, so that build_scene adds every body that took part in the domain
\* fit.
C27_CapRespected ==
    pc = "Valid" =>
        /\ Len(cfg.mpm_bodies) <= cfg.max_bodies
        /\ build_scene_bodies(model_dump(cfg)) = model_dump(cfg).mpm_bodies


\* every user message in the history h is immediately followed by an
\* assistant response
Paired(h) ==
    \A i \in 1..Len(h) :
        h[i].role = "user" => (i < Len(h) /\ h[i + 1].role = "assistant")

\* C28 as stated: when send raises, for any reason, the history is exactly
\* what it was before the call, so after any sequence of sends every user
\* message in the history is immediately followed by its assistant response.
C28_HistoryConsistent ==
    /\ (client.op = "send" /\ client.raised) => client.history = client.before
    /\ Paired(client.history)

\* running without a scene: start() was called before any scene was loaded
RunnerLive ==
    /\ is_running(runner) => (runner.scene # "none" /\ runner.timer)
    /\ runner.timer => is_running(runner)
RunnerNoOps ==
    /\ (runner'.op = "start" /\ is_running(runner))
          => (runner'.emitted = <<>> /\ [runner' EXCEPT !.op = runner.op,
                 !.emitted = runner.emitted, !.raised = runner.raised] = runner)
    /\ (runner'.op \in {"stop", "end"} /\ ~is_running(runner))
          => (runner'.emitted = <<>> /\ [runner' EXCEPT !.op = runner.op,
                 !.emitted = runner.emitted, !.raised = runner.raised] = runner)

\* C29 as stated: after any sequence of update_config, start, stop, end and
\* timer ticks, is_running() is true only if a scene is loaded and the step
\* timer is active, and the timer is active only while is_running() is true;
\* start() while running and stop() or end() while not running change
\* nothing and emit no signal.
C29_RunningMeansLive ==
    /\ []RunnerLive
    /\ [][RunnerNoOps]_runner

\* C30 as stated: at most one LLMAssistant is constructed per (model, device)
\* key, and every call with that key returns the same instance, also when
\* requests with the same key are served concurrently.
C30_OneAssistantPerKey ==
    /\ \A k \in Keys : cache.made[k] <= 1
    /\ \A t, u \in Requests :
          (cache.req[t].at = "done" /\ cache.req[u].at = "done"
              /\ cache.req[t].key = cache.req[u].key)
          => cache.req[t].ret = cache.req[u].ret

====
